---- MODULE Spec2Model ----
(***************************************************************************)
(* Model of TumourModelClass (src/utils/modelSolverClass.py): the six      *)
(* growth laws, the phenotypic switching flux, the right-hand side         *)
(* ModelEqns, the piecewise integration driver Simulate and the observable *)
(* mapping RunCellCountToFluorescentAreaModel.                             *)
(*                                                                         *)
(* Numbers.  The program computes in floating point; the model computes    *)
(* the right-hand side exactly, in rationals <<numerator, denominator>>    *)
(* (denominator 0 stands for a non-finite value), and holds populations,   *)
(* doses and times as integers.  scipy.integrate.solve_ivp is outside the  *)
(* repository: it is modelled as a fixed-step explicit scheme of step dt   *)
(* that rounds each increment towards minus infinity, and whose report of  *)
(* failure is an input of the call.                                        *)
(***************************************************************************)
EXTENDS Integers, Sequences, FiniteSets, TLC

\* ------------------------------------------------------------------ bounds
\* Largest time a dosing schedule handed to Simulate reaches.
MaxT == 2
\* Magnitude of a population beyond which the solver model gives up.
PopCap == 1000

\* ------------------------------------------------------- exact arithmetic
Abs(n) == IF n < 0 THEN -n ELSE n

\* A rational <<numerator, denominator>> with a positive denominator;
\* denominator 0 when it is not finite.
RInt(n) == <<n, 1>>
RFinite(a) == a[2] # 0
RAdd(a, b) ==
    IF a[2] = b[2] THEN <<IF a[2] = 0 THEN 0 ELSE a[1] + b[1], a[2]>>
    ELSE <<a[1] * b[2] + b[1] * a[2], a[2] * b[2]>>
RNeg(a) == <<-a[1], a[2]>>
RSub(a, b) == RAdd(a, RNeg(b))
RMul(a, b) == <<a[1] * b[1], a[2] * b[2]>>
RDiv(a, b) ==
    IF b[1] > 0 THEN <<a[1] * b[2], a[2] * b[1]>>
    ELSE IF b[1] < 0 THEN <<-(a[1] * b[2]), -(a[2] * b[1])>>
    ELSE <<0, 0>>
REq(a, b) == RFinite(a) /\ RFinite(b) /\ a[1] * b[2] = b[1] * a[2]
\* Python's bool used as a number.
RBool(b) == IF b THEN RInt(1) ELSE RInt(0)
\* floor of a finite rational
RFloor(a) == a[1] \div a[2]

\* x ** (1/3), rounded down to an integer; not finite for x < 0 (numpy).
RECURSIVE CbrtFrom(_, _)
CbrtFrom(n, r) == IF (r + 1) * (r + 1) * (r + 1) > n THEN r ELSE CbrtFrom(n, r + 1)
Cbrt(n) == IF n < 0 THEN <<0, 0>> ELSE RInt(CbrtFrom(n, 0))

\* ------------------------------------------------------------- parameters
\* The keys of paramDic that __init__ provisions for a growth law, a
\* switching flag and an area model.
ParamKeys(idx, switchingB, area) ==
    {"r1", "r2", "d", "S0", "R0", "DMax"}
        \cup (IF idx \in {2, 4, 5, 6} THEN {"K"} ELSE {})
        \cup (IF idx = 5 THEN {"r1_hd"} ELSE {})
        \cup (IF idx = 6 THEN {"gamma"} ELSE {})
        \cup (IF switchingB THEN {"reSensitRate", "resAcquisRate"} ELSE {})
        \cup (IF area = "linear" THEN {"scaleFactor"} ELSE {})

\* SetParams that leaves the initial state list as it was.
SetParamsStaleInitialState(self, kwargs) ==
    [self EXCEPT !.paramDic =
        [key \in DOMAIN self.paramDic |->
            IF key \in DOMAIN kwargs THEN kwargs[key] ELSE self.paramDic[key]]]

\* SetParams: every key of paramDic takes the value kwargs gives it, if any;
\* keys kwargs has and paramDic has not are ignored; the initial state list
\* is rebuilt from S0 and R0.
SetParams(self, kwargs) ==
    LET dic == [key \in DOMAIN self.paramDic |->
                    IF key \in DOMAIN kwargs THEN kwargs[key] ELSE self.paramDic[key]]
    IN  [self EXCEPT !.paramDic = dic,
                     !.initialStateList = <<dic["S0"], dic["R0"]>>]

\* ------------------------------------------------------------ growth laws
\* (1 - x / K)
OneMinusOver(x, K) == RSub(RInt(1), RDiv(RInt(x), RInt(K)))

GrowthFun_S(self, N1, N2, D) ==
    LET p == self.paramDic IN
    CASE self.growthFunIdx = 1 -> RMul(RInt(p["r1"]), RInt(N1))
      [] self.growthFunIdx = 2 ->
            RMul(RMul(RInt(p["r1"]), OneMinusOver(N1 + N2, p["K"])), RInt(N1))
      [] self.growthFunIdx = 3 ->
            RDiv(RMul(RInt(p["r1"]), RInt(N1)), Cbrt(N1 + N2))
      [] self.growthFunIdx = 4 ->
            RMul(RMul(RMul(RInt(p["r1"]), OneMinusOver(N1 + N2, p["K"])), RInt(N1)),
                 RSub(RInt(1), RDiv(RMul(RInt(p["d"]), RInt(D)), RInt(p["DMax"]))))
      [] self.growthFunIdx = 5 ->
            RMul(RMul(RAdd(RMul(RInt(p["r1"]), RBool(N1 < 50)),
                           RMul(RInt(p["r1_hd"]), RBool(N1 >= 50))),
                      OneMinusOver(N1 + N2, p["K"])),
                 RInt(N1))
      [] self.growthFunIdx = 6 ->
            RSub(RMul(RMul(RMul(RInt(p["r1"]), OneMinusOver(N1, p["K"])), RInt(N1)),
                      RSub(RInt(1), RDiv(RMul(RInt(p["d"]), RInt(D)), RInt(p["DMax"])))),
                 RMul(RInt(p["gamma"]), RInt(N1)))

GrowthFun_R(self, N1, N2, D) ==
    LET p == self.paramDic IN
    CASE self.growthFunIdx = 1 -> RMul(RInt(p["r2"]), RInt(N2))
      [] self.growthFunIdx = 2 ->
            RMul(RMul(RInt(p["r2"]), OneMinusOver(N1 + N2, p["K"])), RInt(N2))
      [] self.growthFunIdx = 3 ->
            RDiv(RMul(RInt(p["r2"]), RInt(N2)), Cbrt(N1 + N2))
      [] self.growthFunIdx = 4 ->
            RMul(RMul(RInt(p["r2"]), OneMinusOver(N1 + N2, p["K"])), RInt(N2))
      [] self.growthFunIdx = 5 -> RInt(0)
      [] self.growthFunIdx = 6 -> RInt(0)

\* Net flux resistant -> sensitive; identically 0 without switching.
PhenotypicSwitchingFun(self, S, R, D) ==
    LET p == self.paramDic IN
    IF self.phenotypicSwitchingB
    THEN RSub(RMul(RMul(RInt(p["reSensitRate"]),
                        RSub(RInt(1), RDiv(RInt(D), RInt(p["DMax"])))),
                   RInt(R)),
              RDiv(RMul(RMul(RInt(p["resAcquisRate"]), RInt(S)), RInt(D)),
                   RInt(p["DMax"])))
    ELSE RInt(0)

\* The drug kill switched off for law 4 alone.
DeathTermNoLaw6Guard(self, S, D) ==
    LET p == self.paramDic IN
    RMul(RMul(RDiv(RMul(RInt(p["d"]), RInt(D)), RInt(p["DMax"])), RInt(S)),
         RBool(self.growthFunIdx # 4))

\* The generic drug kill d * D/DMax * S, with the two factors of ModelEqns
\* that switch it off for the laws 4 and 6.
DeathTerm(self, S, D) ==
    LET p == self.paramDic IN
    RMul(RMul(RMul(RDiv(RMul(RInt(p["d"]), RInt(D)), RInt(p["DMax"])), RInt(S)),
              RBool(self.growthFunIdx # 4)),
         RBool(self.growthFunIdx # 6))

\* The governing equations: the derivative of uVec = <<S, R, D>>.
ModelEqns(self, t, uVec) ==
    LET S == uVec[1]
        R == uVec[2]
        D == uVec[3]
    IN  << RSub(RAdd(GrowthFun_S(self, S, R, D), PhenotypicSwitchingFun(self, S, R, D)),
                DeathTerm(self, S, D)),
           RSub(GrowthFun_R(self, S, R, D), PhenotypicSwitchingFun(self, S, R, D)),
           RInt(0) >>

\* ------------------------------------------------- the numerical solver
\* What solve_ivp reports in solObj.message.
MsgSuccess == "The solver successfully reached the end of the integration interval."
MsgFailure == "Required step size is less than spacing between numbers."

\* Both population rates are finite.
FiniteRates(dudtVec) == RFinite(dudtVec[1]) /\ RFinite(dudtVec[2])

\* The solver can proceed from y: the derivative is finite there and the
\* populations have not blown up.
Regular(self, y) ==
    /\ Abs(y[1]) <= PopCap /\ Abs(y[2]) <= PopCap
    /\ FiniteRates(ModelEqns(self, 0, y))

\* y advanced by h along the derivative dudtVec.
Advance(y, h, dudtVec) ==
    << y[1] + RFloor(RMul(RInt(h), dudtVec[1])),
       y[2] + RFloor(RMul(RInt(h), dudtVec[2])),
       y[3] + RFloor(RMul(RInt(h), dudtVec[3])) >>

\* One step of length h from y.
EulerStep(self, y, h) == Advance(y, h, ModelEqns(self, 0, y))

\* The states at n successive grid points from y on, as far as the solver
\* gets: the list is shorter than n when it cannot proceed.
RECURSIVE Trajectory(_, _, _, _)
Trajectory(self, y, n, h) ==
    IF n = 0 THEN <<>>
    ELSE IF ~Regular(self, y) THEN <<y>>
    ELSE <<y>> \o Trajectory(self, EulerStep(self, y, h), n - 1, h)

\* The object solve_ivp returns: its verdict, its message, and the samples
\* when it succeeded.
SolObj(ok, ys) ==
    [success |-> ok,
     message |-> IF ok THEN MsgSuccess ELSE MsgFailure,
     y       |-> IF ok THEN ys ELSE <<>>]

\* The solver got through all n grid points and to the end of t_span.
Completed(self, ys, n) == Len(ys) = n /\ Regular(self, ys[Len(ys)])

\* solve_ivp(ModelEqns, y0, t_span = (tVec[0], tVec[-1] + h), t_eval = tVec):
\* the solution sampled on tVec.  failB is the solver's own verdict of
\* non-convergence (step size control, max_step); the solver also fails
\* where it cannot evaluate the derivative.
SolveIvp(self, y0, tVec, h, failB) ==
    SolObj(~failB /\ Completed(self, Trajectory(self, y0, Len(tVec), h), Len(tVec)),
           Trajectory(self, y0, Len(tVec), h))

\* ------------------------------------------------------ the observable
\* math.pow(3/4 * sqrt(pi) * volPerCell, 2/3), rounded down.
SphereAreaCoeff == 314

\* The linear observable without its scale factor.
CellCountUnscaled(self, S, R) ==
    IF self.areaModel = "linear"
    THEN R + S
    ELSE SphereAreaCoeff * CbrtFrom((R + S) * (R + S), 0)

\* The observable of one row.
CellCountToFluorescentArea(self, S, R) ==
    IF self.areaModel = "linear"
    THEN self.paramDic["scaleFactor"] * (R + S)
    ELSE SphereAreaCoeff * CbrtFrom((R + S) * (R + S), 0)

\* RunCellCountToFluorescentAreaModel: the observable of every row of a frame.
RunCellCountToFluorescentAreaModel(self, popModelSolDf) ==
    [i \in 1..Len(popModelSolDf) |->
        CellCountToFluorescentArea(self, popModelSolDf[i].S, popModelSolDf[i].R)]

\* ------------------------------------------------------------- Simulate
\* np.arange(a, b, h)
Arange(a, b, h) ==
    LET n == IF b <= a THEN 0 ELSE (b - a + h - 1) \div h
    IN  [i \in 1..n |-> a + (i - 1) * h]

\* np.any(y <= 0)
AnyNegativeOrZero(y) == \E i \in 1..Len(y) : \E c \in 1..3 : y[i][c] <= 0

\* np.any(y < 0) over the three components of every sample.
AnyNegative(y) == \E i \in 1..Len(y) : \E c \in 1..3 : y[i][c] < 0

\* Only the solver's own verdict gives the interval up.
DivergedSolverOnly(solObj) == ~solObj.success

\* The interval is given up: the solver failed or a component is negative.
Diverged(solObj) == ~solObj.success \/ AnyNegative(solObj.y)

\* The frame with the S and R columns taken from each other's row of y.
IntervalFrameSwapped(tVec, y) ==
    [i \in 1..Len(tVec) |->
        [Time |-> tVec[i], S |-> y[i][2], R |-> y[i][1], DrugConcentration |-> y[i][3]]]

\* pd.DataFrame({"Time": tVec, "S": y[0,:], "R": y[1,:], "DrugConcentration": y[2,:]})
IntervalFrame(tVec, y) ==
    [i \in 1..Len(tVec) |->
        [Time |-> tVec[i], S |-> y[i][1], R |-> y[i][2], DrugConcentration |-> y[i][3]]]

\* The all-zero frame that misses the last grid point.
ZeroFrameShort(tVec) ==
    [i \in 1..(Len(tVec) - 1) |->
        [Time |-> tVec[i], S |-> 0, R |-> 0, DrugConcentration |-> 0]]

\* The all-zero frame over tVec that stands for "no solution".
ZeroFrame(tVec) ==
    [i \in 1..Len(tVec) |-> [Time |-> tVec[i], S |-> 0, R |-> 0, DrugConcentration |-> 0]]

\* The time grid of interval intervalId (counted from 1) of a schedule.
IntervalGrid(treatmentScheduleList, intervalId, h) ==
    LET interval == treatmentScheduleList[intervalId]
    IN  IF intervalId = Len(treatmentScheduleList)
        THEN Arange(interval[1], interval[2] + h, h)
        ELSE Arange(interval[1], interval[2], h)

\* The state vector handed to the solver for an interval: the current one
\* with the interval's dose as the drug level.
Seed(currStateVec, interval) == [currStateVec EXCEPT ![3] = interval[3]]

\* The rest of one pass of the loop, from the solver's answer on.  st holds
\* the loop's locals: currStateVec, resultsDFList (already concatenated),
\* encounteredProblemB, tVec, errMessage (the field), and raisedB when
\* indexing an empty tVec raised; y0s and solObjs list what the solver was
\* given and what it returned, interval by interval.
CheckAndSave(st, tVec, y0, solObj) ==
    IF Diverged(solObj)
    THEN [st EXCEPT !.tVec = tVec,
                    !.y0s = Append(@, y0),
                    !.solObjs = Append(@, solObj),
                    !.errMessage = solObj.message,
                    !.encounteredProblemB = TRUE]
    ELSE [st EXCEPT !.tVec = tVec,
                    !.y0s = Append(@, y0),
                    !.solObjs = Append(@, solObj),
                    !.resultsDFList = @ \o IntervalFrame(tVec, solObj.y),
                    !.nFrames = @ + 1,
                    !.currStateVec = solObj.y[Len(solObj.y)]]

\* One pass of the loop, for an interval and its grid tVec: tVec[0] raises
\* when tVec is empty.
LoopBody(self, h, failB, st, interval, tVec) ==
    IF tVec = <<>> THEN [st EXCEPT !.tVec = tVec, !.raisedB = TRUE]
    ELSE CheckAndSave(st, tVec, Seed(st.currStateVec, interval),
             SolveIvp(self, Seed(st.currStateVec, interval), tVec, h, failB))

\* The loop over the intervals, from interval intervalId on; it ends at the
\* first interval given up.
RECURSIVE RunIntervals(_, _, _, _, _, _)
RunIntervals(self, treatmentScheduleList, h, failAt, intervalId, st) ==
    IF \/ intervalId > Len(treatmentScheduleList)
       \/ st.raisedB
       \/ st.encounteredProblemB
    THEN st
    ELSE RunIntervals(self, treatmentScheduleList, h, failAt, intervalId + 1,
             LoopBody(self, h, failAt = intervalId, st,
                      treatmentScheduleList[intervalId],
                      IntervalGrid(treatmentScheduleList, intervalId, h)))

\* resultsDf is None
NoneDf == [isNone |-> TRUE, rows |-> <<>>]
Frame(rows) == [isNone |-> FALSE, rows |-> rows]

\* The call starts a new trajectory: there is none yet, or the schedule
\* starts at time 0.
RestartB(self, treatmentScheduleList) ==
    self.resultsDf.isNone \/ treatmentScheduleList[1][1] = 0

\* The state vector the first interval starts from, before its dose is set.
StartState(self, restartB) ==
    IF restartB
    THEN self.initialStateList \o <<0>>
    ELSE LET last == self.resultsDf.rows[Len(self.resultsDf.rows)]
         IN  <<last.S, last.R, last.DrugConcentration>>

\* The frame of this call: the intervals' frames, or the zero frame when
\* there is none, with the observable column added.
CallFrame(self, st) ==
    LET df == IF st.nFrames > 0 THEN st.resultsDFList ELSE ZeroFrame(st.tVec)
        size == RunCellCountToFluorescentAreaModel(self, df)
    IN  [i \in 1..Len(df) |->
            [Time |-> df[i].Time, S |-> df[i].S, R |-> df[i].R,
             DrugConcentration |-> df[i].DrugConcentration, TumourSize |-> size[i]]]

\* The accumulated trajectory with the observable computed anew over all
\* of its rows.
AccumulateRecomputing(self, kept, resultsDf) ==
    LET all == IF kept.isNone THEN resultsDf ELSE kept.rows \o resultsDf
    IN  Frame([i \in 1..Len(all) |->
                  [all[i] EXCEPT !.TumourSize =
                      CellCountToFluorescentArea(self, all[i].S, all[i].R)]])

\* The trajectory the instance holds after the call: the call's frame,
\* after the frame kept from before if there is one.
Accumulate(self, kept, resultsDf) ==
    IF kept.isNone THEN Frame(resultsDf) ELSE Frame(kept.rows \o resultsDf)

\* The locals of Simulate on entering the loop.
LoopStart(self, restartB) ==
    [currStateVec |-> StartState(self, restartB),
     resultsDFList |-> <<>>, nFrames |-> 0,
     encounteredProblemB |-> FALSE, errMessage |-> self.errMessage,
     tVec |-> <<>>, raisedB |-> FALSE, y0s |-> <<>>, solObjs |-> <<>>]

\* The instance once the loop has raised, or has ended and not yet stored
\* its frame.
Entered(self, treatmentScheduleList, h, kept, st) ==
    [self EXCEPT !.dt = h, !.successB = FALSE,
                 !.treatmentScheduleList = treatmentScheduleList,
                 !.resultsDf = kept,
                 !.errMessage = st.errMessage]

\* The instance after the call, and the record of what the call did, given
\* the loop's final locals st and the frame resultsDf of the call.
AfterLoop(self, treatmentScheduleList, h, restartB, kept, st, resultsDf) ==
    [self |-> IF st.raisedB
              THEN Entered(self, treatmentScheduleList, h, kept, st)
              ELSE [Entered(self, treatmentScheduleList, h, kept, st) EXCEPT
                       !.resultsDf = Accumulate(self, kept, resultsDf),
                       !.successB = ~st.encounteredProblemB],
     call |-> [restartB |-> restartB, priorB |-> ~self.resultsDf.isNone,
               kept |-> kept, paramDic |-> self.paramDic,
               treatmentScheduleList |-> treatmentScheduleList, dt |-> h,
               rows |-> IF st.raisedB THEN <<>> ELSE resultsDf,
               raisedB |-> st.raisedB,
               encounteredProblemB |-> st.encounteredProblemB,
               nFrames |-> st.nFrames,
               y0s |-> st.y0s, solObjs |-> st.solObjs]]

\* Simulate from the end of the loop on.
StoreResults(self, treatmentScheduleList, h, restartB, kept, st) ==
    AfterLoop(self, treatmentScheduleList, h, restartB, kept, st, CallFrame(self, st))

\* Simulate from the loop on, the trajectory kept being known.
SolveFrom(self, treatmentScheduleList, h, failAt, restartB) ==
    StoreResults(self, treatmentScheduleList, h, restartB,
                 IF restartB THEN NoneDf ELSE self.resultsDf,
                 RunIntervals(self, treatmentScheduleList, h, failAt, 1,
                              LoopStart(self, restartB)))

\* Simulate(treatmentScheduleList) at time resolution h, the solver failing
\* at interval failAt (0: at none).  The result is the instance after the
\* call and the record of what the call did.
Simulate(self, treatmentScheduleList, h, failAt) ==
    SolveFrom(self, treatmentScheduleList, h, failAt,
              RestartB(self, treatmentScheduleList))

\* ---------------------------------------------------------------- state
\* self: the instance's fields.  call: what the last Simulate call was
\* given and did (its locals), for the properties to refer to.  eqns: the
\* last evaluation of ModelEqns asked from outside, its argument and value.
\* grids: the time grids last built for a schedule with dt and the interval
\* bounds held in binary floating point, as Python holds them.
VARIABLES self, call, eqns, grids

vars == <<self, call, eqns, grids>>

\* The constructor's arguments: growthFunIdx, phenotypicSwitchingB,
\* areaModel and dt.
CtorArgs ==
    { <<1, TRUE, "linear", 1>>, <<2, FALSE, "linear", 2>>, <<3, TRUE, "sphere", 1>>,
      <<4, TRUE, "linear", 1>>, <<5, FALSE, "sphere", 2>>, <<6, TRUE, "linear", 1>> }

\* The parameter values the constructor is given (its kwargs name every key).
CtorKwargs ==
    [key \in {"r1", "r2", "d", "S0", "R0", "DMax", "K", "r1_hd", "gamma",
              "reSensitRate", "resAcquisRate", "scaleFactor"} |->
        CASE key = "S0" -> 40 [] key = "R0" -> 10 [] key = "DMax" -> 2
          [] key = "K" -> 100 [] key = "r1_hd" -> 2 [] key = "d" -> 3 [] OTHER -> 1]

\* The drug levels of the schedules: none and DMax.
DoseSet == {0, 2}

\* The parameter updates SetParams is given; "nReplicates" is no key of
\* paramDic.
KwargsSet ==
    { [key \in {"scaleFactor", "nReplicates", "S0", "R0"} |->
          CASE key = "scaleFactor" -> 2 [] key = "nReplicates" -> 25
            [] key = "S0" -> 0 [] key = "R0" -> 3] }

\* The elements of a finite set of integers, in increasing order.
RECURSIVE Sorted(_)
Sorted(B) ==
    IF B = {} THEN <<>>
    ELSE LET m == CHOOSE x \in B : \A z \in B : x <= z
         IN  <<m>> \o Sorted(B \ {m})

\* The contiguous schedules over the breakpoints 0..MaxT, of one or two
\* intervals <<start, end, dose>>.
ContiguousSchedules ==
    UNION { LET pts == Sorted(B)
                n == Len(pts) - 1
            IN  { [i \in 1..n |-> <<pts[i], pts[i + 1], doses[i]>>] :
                      doses \in [1..n -> DoseSet] }
            : B \in { X \in SUBSET (0..MaxT) : Cardinality(X) \in {2, 3} } }

\* Two ill-formed schedules: a negative drug level, and an empty first
\* interval.
OddSchedules == { << <<0, 1, -2>> >>, << <<0, 0, 0>>, <<0, 1, 0>> >> }

Schedules == ContiguousSchedules \cup OddSchedules

\* __init__: the instance after construction.
NewInstance(idx, switchingB, area, h, kwargs) ==
    LET dic == [key \in ParamKeys(idx, switchingB, area) |-> kwargs[key]]
    IN  [growthFunIdx |-> idx, phenotypicSwitchingB |-> switchingB, areaModel |-> area,
         paramDic |-> dic, initialStateList |-> <<dic["S0"], dic["R0"]>>,
         resultsDf |-> NoneDf, dt |-> h, successB |-> FALSE,
         errMessage |-> "unset", treatmentScheduleList |-> <<>>]

\* No Simulate call yet.
NoCall ==
    [restartB |-> FALSE, priorB |-> FALSE, kept |-> NoneDf, paramDic |-> <<>>,
     treatmentScheduleList |-> <<>>, dt |-> 0, rows |-> <<>>, raisedB |-> FALSE,
     encounteredProblemB |-> FALSE, nFrames |-> 0, y0s |-> <<>>, solObjs |-> <<>>]

\* No evaluation of ModelEqns yet.
NoEval == [uVec |-> <<>>, dudtVec |-> <<>>, paramDic |-> <<>>]

\* No grid built yet.
NoGrid == [dt |-> <<1, 1>>, bounds |-> <<>>, tVecs |-> <<>>]

Init ==
    /\ \E a \in CtorArgs : self = NewInstance(a[1], a[2], a[3], a[4], CtorKwargs)
    /\ call = NoCall
    /\ eqns = NoEval
    /\ grids = NoGrid

\* myModel.SetParams(**kwargs)
DoSetParams ==
    \E kwargs \in KwargsSet :
        /\ self' = SetParams(self, kwargs)
        /\ UNCHANGED <<call, eqns, grids>>

\* myModel.Simulate(treatmentScheduleList): the call names no dt, so that
\* kwargs.get('dt', self.dt) is self.dt.  A schedule that does not start at
\* time 0 takes up where the schedule of the call before ended.
DoSimulate ==
    \E treatmentScheduleList \in Schedules :
      \E failAt \in 0..Len(treatmentScheduleList) :
        /\ IF self.resultsDf.isNone \/ treatmentScheduleList[1][1] = 0
           THEN TRUE
           ELSE treatmentScheduleList[1][1] =
                    self.treatmentScheduleList[Len(self.treatmentScheduleList)][2]
        /\ LET r == Simulate(self, treatmentScheduleList, self.dt, failAt)
           IN  self' = r.self /\ call' = r.call
        /\ UNCHANGED <<eqns, grids>>

Next == DoSetParams \/ DoSimulate

Spec == Init /\ [][Next]_vars

\* ------------------------------------- the right-hand side, on its own
\* The states ModelEqns is evaluated at.
UVecSet == { <<S, R, D>> : S \in {0, 7, 60}, R \in {0, 5}, D \in {0, 1, 2, 4} }

\* The values the death coefficient d is perturbed to.
DeathKwargsSet == { [key \in {"d"} |-> v] : v \in {0, 1, 5} }

InitEqns ==
    /\ \E idx \in 1..6, switchingB \in BOOLEAN :
          self = NewInstance(idx, switchingB, "linear", 1, CtorKwargs)
    /\ call = NoCall
    /\ eqns = NoEval
    /\ grids = NoGrid

\* myModel.SetParams(d = v)
DoPerturbDeath ==
    \E kwargs \in DeathKwargsSet :
        /\ self' = SetParams(self, kwargs)
        /\ UNCHANGED <<call, eqns, grids>>

\* myModel.ModelEqns(t, uVec)
DoModelEqns ==
    \E uVec \in UVecSet :
        /\ eqns' = [uVec |-> uVec, dudtVec |-> ModelEqns(self, 0, uVec),
                    paramDic |-> self.paramDic]
        /\ UNCHANGED <<self, call, grids>>

NextEqns == DoPerturbDeath \/ DoModelEqns

SpecEqns == InitEqns /\ [][NextEqns]_vars

\* ------------------------------------------- binary floating point
\* Python's float and numpy's float64 are IEEE binary64.  A natural number
\* of any size is its sequence of bits, lowest first, the highest bit 1
\* (the empty sequence is 0); a float is m * 2^e for such an m of at most
\* Precision bits.  The times of a schedule are never negative.
Precision == 53

BBit(a, i) == IF i <= Len(a) THEN a[i] ELSE 0

\* The number of bits of a up to its highest 1.
BLen(a) ==
    IF \A i \in 1..Len(a) : a[i] = 0 THEN 0
    ELSE CHOOSE i \in 1..Len(a) : a[i] = 1 /\ \A j \in (i + 1)..Len(a) : a[j] = 0

\* a without the zeros above its highest 1
BNorm(a) == SubSeq(a, 1, BLen(a))

RECURSIVE BFromInt(_)
BFromInt(n) == IF n = 0 THEN <<>> ELSE <<n % 2>> \o BFromInt(n \div 2)

RECURSIVE BToInt(_)
BToInt(a) == IF a = <<>> THEN 0 ELSE a[1] + 2 * BToInt(Tail(a))

\* The bits lo..hi of a + b, c the carry into bit lo: <<the bits, the
\* carry out of bit hi>>.  The lower half is added first and hands its
\* carry to the upper half.
RECURSIVE BAddRange(_, _, _, _, _)
BAddJoin(low, high) == << low[1] \o high[1], high[2] >>
BAddHigh(a, b, lo, hi, low) == BAddJoin(low, BAddRange(a, b, lo, hi, low[2]))
BAddRange(a, b, lo, hi, c) ==
    IF lo = hi
    THEN << << (BBit(a, lo) + BBit(b, lo) + c) % 2 >>,
            (BBit(a, lo) + BBit(b, lo) + c) \div 2 >>
    ELSE BAddHigh(a, b, (lo + hi) \div 2 + 1, hi,
                  BAddRange(a, b, lo, (lo + hi) \div 2, c))

BWithCarry(sum) == IF sum[2] = 1 THEN Append(sum[1], 1) ELSE sum[1]
BMaxLen(a, b) == IF Len(a) > Len(b) THEN Len(a) ELSE Len(b)

BAdd(a, b) ==
    IF a = <<>> THEN b
    ELSE IF b = <<>> THEN a
    ELSE BWithCarry(BAddRange(a, b, 1, BMaxLen(a, b), 0))

\* The bits lo..hi of a - b, c the borrow into bit lo (for a >= b).
RECURSIVE BSubRange(_, _, _, _, _)
BSubHigh(a, b, lo, hi, low) == BAddJoin(low, BSubRange(a, b, lo, hi, low[2]))
BSubRange(a, b, lo, hi, c) ==
    IF lo = hi
    THEN << << (2 + BBit(a, lo) - BBit(b, lo) - c) % 2 >>,
            IF BBit(a, lo) - BBit(b, lo) - c < 0 THEN 1 ELSE 0 >>
    ELSE BSubHigh(a, b, (lo + hi) \div 2 + 1, hi,
                  BSubRange(a, b, lo, (lo + hi) \div 2, c))

BSub(a, b) == IF a = <<>> THEN <<>> ELSE BNorm(BSubRange(a, b, 1, Len(a), 0)[1])

\* a < b
BLess(a, b) ==
    IF Len(a) # Len(b) THEN Len(a) < Len(b)
    ELSE \E i \in 1..Len(a) :
            a[i] < b[i] /\ \A j \in (i + 1)..Len(a) : a[j] = b[j]

\* a * 2^k, and the floor of a / 2^k
BShl(a, k) == IF a = <<>> THEN <<>> ELSE [i \in 1..k |-> 0] \o a
BShr(a, k) == IF k >= Len(a) THEN <<>> ELSE SubSeq(a, k + 1, Len(a))
\* some of the k lowest bits of a is 1
BLow(a, k) == \E i \in 1..k : BBit(a, i) = 1

\* a times the bits lo..hi of b
RECURSIVE BMulRange(_, _, _, _)
BMulRange(a, b, lo, hi) ==
    IF lo = hi THEN (IF b[lo] = 1 THEN BShl(a, lo - 1) ELSE <<>>)
    ELSE BAdd(BMulRange(a, b, lo, (lo + hi) \div 2),
              BMulRange(a, b, (lo + hi) \div 2 + 1, hi))

BMul(a, b) == IF a = <<>> \/ b = <<>> THEN <<>> ELSE BMulRange(a, b, 1, Len(b))

\* One step of the long division by b, for the remainder rem so far with
\* the next bit of the dividend brought down: <<the bit of the quotient,
\* the remainder>>.
BDivBit(rem, b) ==
    IF BLess(rem, b) THEN << <<0>>, rem >> ELSE << <<1>>, BSub(rem, b) >>

\* The long division of a by b over the bits hi down to lo of a, from the
\* remainder rem of the bits above: <<the bits of the quotient, highest
\* first, the remainder>>.  The upper half is divided first and hands its
\* remainder to the lower half.
RECURSIVE BDivRange(_, _, _, _, _)
BDivJoin(high, low) == << high[1] \o low[1], low[2] >>
BDivLow(a, b, lo, hi, high) == BDivJoin(high, BDivRange(a, b, lo, hi, high[2]))
BDivRange(a, b, lo, hi, rem) ==
    IF lo = hi THEN BDivBit(BNorm(<<a[lo]>> \o rem), b)
    ELSE BDivLow(a, b, lo, (lo + hi) \div 2,
                 BDivRange(a, b, (lo + hi) \div 2 + 1, hi, rem))

BReverse(a) == [i \in 1..Len(a) |-> a[Len(a) + 1 - i]]
BQuotient(qr) == [q |-> BNorm(BReverse(qr[1])), r |-> qr[2]]

\* quotient and remainder of a by b > 0
BDiv(a, b) ==
    IF a = <<>> THEN [q |-> <<>>, r |-> <<>>]
    ELSE BQuotient(BDivRange(a, b, 1, Len(a), <<>>))

\* The number of zero bits below the lowest 1 of a # 0.
BTrailing(a) ==
    (CHOOSE i \in 1..Len(a) : a[i] = 1 /\ \A j \in 1..(i - 1) : a[j] = 0) - 1

\* m * 2^e with m odd (or 0): one record for one number.
FCanon(m, e) ==
    IF m = <<>> THEN [m |-> <<>>, e |-> 0]
    ELSE [m |-> BShr(m, BTrailing(m)), e |-> e + BTrailing(m)]

\* m with its k lowest bits rounded away, to nearest, ties to even;
\* stickyB: there is something nonzero below m.
BRounded(m, k, stickyB) ==
    IF m[k] = 1 /\ (stickyB \/ BLow(m, k - 1) \/ BBit(m, k + 1) = 1)
    THEN BAdd(BShr(m, k), <<1>>)
    ELSE BShr(m, k)

\* m * 2^e (and something below when stickyB) rounded to a float.  Where
\* stickyB holds, m has more than Precision bits.
FRound(m, e, stickyB) ==
    IF Len(m) <= Precision THEN FCanon(m, e)
    ELSE FCanon(BRounded(m, Len(m) - Precision, stickyB), e + Len(m) - Precision)

\* The float nearest to n / d: what Python holds for a numeral.
\* The quotient qr.q, with remainder qr.r, scaled by 2^e and rounded.
FRoundDiv(qr, e) == FRound(qr.q, e, qr.r # <<>>)

FFromRatio(n, d) == FRoundDiv(BDiv(BShl(BFromInt(n), 70), BFromInt(d)), -70)

FFromInt(n) == FCanon(BFromInt(n), 0)

\* The mantissa of a at the exponent e <= a.e
FAt(a, e) == BShl(a.m, a.e - e)
FMinExp(a, b) == IF a.e < b.e THEN a.e ELSE b.e

FLess(a, b) == BLess(FAt(a, FMinExp(a, b)), FAt(b, FMinExp(a, b)))

FAdd(a, b) ==
    FRound(BAdd(FAt(a, FMinExp(a, b)), FAt(b, FMinExp(a, b))), FMinExp(a, b), FALSE)

\* a - b, for a >= b
FSub(a, b) ==
    FRound(BSub(FAt(a, FMinExp(a, b)), FAt(b, FMinExp(a, b))), FMinExp(a, b), FALSE)

FMul(a, b) == FRound(BMul(a.m, b.m), a.e + b.e, FALSE)

\* a / b, for b > 0
\* The bits a's mantissa is shifted up by before it is divided by b's, for
\* the quotient to have more than Precision + 1 bits.
FDivShift(a, b) == Precision + 3 + Len(b.m) - Len(a.m)

FDiv(a, b) ==
    FRoundDiv(BDiv(BShl(a.m, FDivShift(a, b)), b.m), a.e - b.e - FDivShift(a, b))

\* ceil(a) as an integer
FCeil(a) ==
    IF a.e >= 0 THEN BToInt(BShl(a.m, a.e))
    ELSE BToInt(BShr(a.m, -a.e)) + (IF BLow(a.m, -a.e) THEN 1 ELSE 0)

\* ------------------------------------------ the time grids, in floats
\* Largest interval bound of a schedule, counted in steps of dt.
MaxTick == 5

\* The values of dt, as the numerals <<n, d>> for n / d: 1, 0.5, 0.1 and
\* the default 1e-3.
DtSet == { <<1, 1>>, <<1, 2>>, <<1, 10>>, <<1, 1000>> }

\* The float Python holds for the numeral of k steps of dt.
TimeOf(k, dt) == FFromRatio(k * dt[1], dt[2])

\* len(np.arange(start, stop, step)): ceil((stop - start) / step), 0 when
\* stop is not above start.
ArangeLen(start, stop, step) ==
    IF FLess(start, stop) THEN FCeil(FDiv(FSub(stop, start), step)) ELSE 0

\* np.arange(start, stop, step)[i]: start, start + step, and from there on
\* start + i * delta, for delta = (start + step) - start.
ArangeAt(start, step, i) ==
    IF i = 0 THEN start
    ELSE IF i = 1 THEN FAdd(start, step)
    ELSE FAdd(start, FMul(FFromInt(i), FSub(FAdd(start, step), start)))

\* np.arange(start, stop, step) on floats
FArange(start, stop, step) ==
    [i \in 1..ArangeLen(start, stop, step) |-> ArangeAt(start, step, i - 1)]

\* tVec of an interval from start to end: np.arange(start, end, dt), and
\* np.arange(start, end + dt, dt) for the last interval of the schedule.
FIntervalGrid(start, end, h, lastB) ==
    IF lastB THEN FArange(start, FAdd(end, h), h) ELSE FArange(start, end, h)

\* The Time column of a Simulate call every interval of which integrates:
\* the grids of the intervals, for a schedule whose interval bounds are
\* the steps bounds[k][1], bounds[k][2] of dt.
SimulateGrids(bounds, dt) ==
    [k \in 1..Len(bounds) |->
        FIntervalGrid(TimeOf(bounds[k][1], dt), TimeOf(bounds[k][2], dt),
                      TimeOf(1, dt), k = Len(bounds))]

\* The contiguous schedules of one or two intervals from the step first on.
TickSchedules(first) ==
    UNION { LET pts == Sorted(B \cup {first})
            IN  { [i \in 1..(Len(pts) - 1) |-> <<pts[i], pts[i + 1]>>] }
            : B \in { X \in SUBSET ((first + 1)..MaxTick) : Cardinality(X) \in {1, 2} } }

\* An instance constructed with dt one of DtSet.
InitGrid ==
    /\ self = NewInstance(1, TRUE, "linear", 1, CtorKwargs)
    /\ call = NoCall
    /\ eqns = NoEval
    /\ \E dt \in DtSet : grids = [NoGrid EXCEPT !.dt = dt]

\* myModel.Simulate(treatmentScheduleList), as far as the Time column goes:
\* the schedule starts at time 0, or where the schedule before it ended.
DoSimulateGrids ==
    \E first \in {0} \cup (IF grids.bounds = <<>> THEN {}
                           ELSE {grids.bounds[Len(grids.bounds)][2]}) :
      \E bounds \in TickSchedules(first) :
        /\ grids' = [grids EXCEPT !.bounds = bounds,
                                  !.tVecs = SimulateGrids(bounds, grids.dt)]
        /\ UNCHANGED <<self, call, eqns>>

NextGrid == DoSimulateGrids

SpecGrid == InitGrid /\ [][NextGrid]_vars

\* ------------------------------------------------------------ properties
\* A Simulate call has been made; it returned (it did not raise).
Made == call.dt # 0
Returned == Made /\ ~call.raisedB
Sched == call.treatmentScheduleList

\* Some value of a raw solver output is strictly below 0.
SomeBelowZero(y) ==
    \E j \in 1..Len(y) : y[j][1] < 0 \/ y[j][2] < 0 \/ y[j][3] < 0

\* The interval whose solver outcome is solObj failed.
IntervalFailed(solObj) == ~solObj.success \/ SomeBelowZero(solObj.y)

\* Every interval of the schedule was integrated, without solver failure and
\* without a negative component.
AllIntegrated ==
    /\ Len(call.solObjs) = Len(Sched)
    /\ \A i \in 1..Len(call.solObjs) : ~IntervalFailed(call.solObjs[i])

\* The instance as it was during the last call, as far as the equations go.
InstanceAtCall == [self EXCEPT !.paramDic = call.paramDic]

\* C1: a numerical failure never makes Simulate raise: the call returns with
\* a non-empty result, and the success flag is true exactly when every
\* interval was integrated without solver failure and without a negative
\* component.  (The only raise of the model, an empty time grid, happens
\* with no numerical failure behind it.)
ThmC1 ==
    Made =>
        /\ call.raisedB =>
              \A i \in 1..Len(call.solObjs) : ~IntervalFailed(call.solObjs[i])
        /\ ~call.raisedB =>
              /\ ~self.resultsDf.isNone
              /\ Len(call.rows) > 0
              /\ Len(self.resultsDf.rows) >= Len(call.rows)
              /\ self.successB <=> AllIntegrated

\* A call that failed at some interval returned, with the flag false, on an
\* instance that held a trajectory before.
WitC1 ==
    /\ Returned /\ call.priorB
    /\ \E i \in 1..Len(call.solObjs) : IntervalFailed(call.solObjs[i])
    /\ ~self.successB
    /\ Len(self.resultsDf.rows) > 0

\* The first interval of the last call failed.
FirstFailed ==
    Returned /\ Len(call.solObjs) >= 1 /\ IntervalFailed(call.solObjs[1])

\* C2: when the first interval fails, the rows of the call are all zeros
\* over the first interval's time grid (start, start+dt, ... below end, or
\* below end+dt when the schedule has this one interval), the flag is false
\* and nothing is raised.
ThmC2 ==
    FirstFailed =>
        LET grid == IF Len(Sched) = 1
                    THEN Arange(Sched[1][1], Sched[1][2] + call.dt, call.dt)
                    ELSE Arange(Sched[1][1], Sched[1][2], call.dt)
        IN  /\ Len(call.rows) = Len(grid)
            /\ \A i \in 1..Len(grid) :
                  call.rows[i] = [Time |-> grid[i], S |-> 0, R |-> 0,
                                  DrugConcentration |-> 0, TumourSize |-> 0]
            /\ ~self.successB

\* The first of two intervals failed.
WitC2 == FirstFailed /\ Len(Sched) = 2 /\ Len(call.rows) > 0

\* C3: a call whose schedule starts at time 0 seeds its first interval from
\* (S0, R0) of the current parameters with the drug level at the first dose,
\* and leaves only its own rows in the result.
ThmC3 ==
    (Returned /\ Sched[1][1] = 0) =>
        /\ call.y0s[1] = <<call.paramDic["S0"], call.paramDic["R0"], Sched[1][3]>>
        /\ call.kept.isNone
        /\ self.resultsDf.rows = call.rows

\* A restart on an instance that held a trajectory, after S0 and R0 were
\* changed.
WitC3 ==
    /\ Returned /\ Sched[1][1] = 0 /\ call.priorB
    /\ call.paramDic["S0"] = 0

\* A fresh instance with the parameters of the last call.
FreshAtCall == [InstanceAtCall EXCEPT !.resultsDf = NoneDf]

ThmC5 ==
    Made =>
        \A i \in 1..Len(call.solObjs) :
            call.solObjs[i].success =>
                ( (i = Len(call.solObjs) /\ call.encounteredProblemB)
                  <=> SomeBelowZero(call.solObjs[i].y) )

\* An interval whose output holds an exact 0 and nothing below 0 was kept.
WitC5 ==
    /\ Returned /\ ~call.encounteredProblemB
    /\ \E i \in 1..Len(call.solObjs) :
          /\ call.solObjs[i].success
          /\ \E j \in 1..Len(call.solObjs[i].y) : call.solObjs[i].y[j][1] = 0
          /\ ~SomeBelowZero(call.solObjs[i].y)

\* The instance as it was when ModelEqns was last evaluated from outside.
InstanceAtEval == [self EXCEPT !.paramDic = eqns.paramDic]

\* C6: for the laws 4 and 6 the generic death term d * D/DMax * S adds
\* nothing to dS/dt, which is growthS + switchingFlux; for the laws 1, 2, 3
\* and 5 it is subtracted in full; for every law dR/dt is growthR -
\* switchingFlux and dD/dt is 0 (wherever the growth terms are finite).
ThmC6 ==
    eqns.uVec # <<>> =>
        LET m == InstanceAtEval
            S == eqns.uVec[1]
            R == eqns.uVec[2]
            D == eqns.uVec[3]
            growthS == GrowthFun_S(m, S, R, D)
            growthR == GrowthFun_R(m, S, R, D)
            flux == PhenotypicSwitchingFun(m, S, R, D)
            death == RDiv(RInt(m.paramDic["d"] * D * S), RInt(m.paramDic["DMax"]))
        IN  (RFinite(growthS) /\ RFinite(growthR)) =>
              /\ m.growthFunIdx \in {4, 6} =>
                    REq(eqns.dudtVec[1], RAdd(growthS, flux))
              /\ m.growthFunIdx \in {1, 2, 3, 5} =>
                    REq(eqns.dudtVec[1], RSub(RAdd(growthS, flux), death))
              /\ REq(eqns.dudtVec[2], RSub(growthR, flux))
              /\ REq(eqns.dudtVec[3], RInt(0))

\* Law 6 evaluated, after d was perturbed, where the generic death term
\* would not be 0.
WitC6 ==
    /\ eqns.uVec # <<>>
    /\ self.growthFunIdx = 6
    /\ eqns.paramDic["d"] = 5
    /\ eqns.uVec[1] > 0 /\ eqns.uVec[3] > 0
    /\ RFinite(eqns.dudtVec[1])

Raw(row) == [Time |-> row.Time, S |-> row.S, R |-> row.R,
             DrugConcentration |-> row.DrugConcentration]

\* The samples of the intervals 1..n of the last call, each on its grid
\* start, start+dt, ... below end.
RECURSIVE SamplesUpTo(_)
SamplesUpTo(n) ==
    IF n = 0 THEN <<>>
    ELSE LET y == call.solObjs[n].y
         IN  SamplesUpTo(n - 1) \o
             [j \in 1..Len(y) |->
                 [Time |-> Sched[n][1] + (j - 1) * call.dt,
                  S |-> y[j][1], R |-> y[j][2], DrugConcentration |-> y[j][3]]]

\* Interval k is the first of the last call to fail, and not the first
\* interval.
FirstToFail(k) ==
    /\ Returned /\ k >= 2 /\ k <= Len(call.solObjs)
    /\ IntervalFailed(call.solObjs[k])
    /\ \A i \in 1..(k - 1) : ~IntervalFailed(call.solObjs[i])

\* What C8 says of the solver and of the rows: no interval after k is
\* handed to the solver, and the rows of the call are the samples of the
\* intervals before k, in order.
HaltsAt(k) ==
    /\ Len(call.solObjs) = k
    /\ Len(call.rows) = Len(SamplesUpTo(k - 1))
    /\ \A i \in 1..Len(call.rows) : Raw(call.rows[i]) = SamplesUpTo(k - 1)[i]
    /\ \A i \in 1..Len(call.rows) : Sched[k][1] > call.rows[i].Time

\* C8: when interval k (k >= 1, the first interval being 0) is the first
\* of a call to fail, by the solver's failure or by a negative component,
\* the solver is not invoked for any interval after k, the rows of the call
\* are the samples of the intervals before k in order, and the message
\* recorded is a message of failure.
CexC8 ==
    \A k \in 1..Len(Sched) :
        FirstToFail(k) => (HaltsAt(k) /\ self.errMessage = MsgFailure)

\* What holds of a call whose interval k >= 1 is the first to fail: it
\* halts there, and errMessage is the solver's own message for interval k,
\* its message of success when the failure is a negative component.
HaltWithSolverMessage ==
    \A k \in 1..Len(Sched) :
        FirstToFail(k) =>
            /\ HaltsAt(k)
            /\ self.errMessage = call.solObjs[k].message
            /\ self.errMessage = IF call.solObjs[k].success THEN MsgSuccess
                                                              ELSE MsgFailure

\* The second interval failed by a negative component.
HaltedByNegative ==
    /\ FirstToFail(2)
    /\ call.solObjs[2].success
    /\ Len(call.rows) > 0
    /\ self.errMessage = MsgSuccess

\* C9: the (S, R) that seed interval k+1 are the state the solver reached
\* for interval k at its end time, and the drug level is the dose of
\* interval k+1 (for intervals whose length is a multiple of dt).
CexC9 ==
    Returned =>
        \A k \in 1..(Len(call.y0s) - 1) :
            ((Sched[k][2] - Sched[k][1]) % call.dt = 0) =>
                LET y == call.solObjs[k].y
                    atEnd == EulerStep(InstanceAtCall, y[Len(y)], call.dt)
                IN  /\ call.y0s[k + 1][1] = atEnd[1]
                    /\ call.y0s[k + 1][2] = atEnd[2]
                    /\ call.y0s[k + 1][3] = Sched[k + 1][3]

\* C10 as stated: every row of the accumulated trajectory has the
\* observable scaleFactor * (S + R), for the scaleFactor of the call.
CexC10 ==
    (Returned /\ self.areaModel = "linear") =>
        \A i \in 1..Len(self.resultsDf.rows) :
            self.resultsDf.rows[i].TumourSize =
                call.paramDic["scaleFactor"] *
                    (self.resultsDf.rows[i].S + self.resultsDf.rows[i].R)

\* C10 amended: every row the call added has the observable scaleFactor *
\* (S + R), for the scaleFactor of the call; the rows carried over keep the
\* observable they had.
ThmC10 ==
    (Returned /\ self.areaModel = "linear") =>
        LET n == Len(call.kept.rows)
            rows == self.resultsDf.rows
        IN  /\ Len(rows) = n + Len(call.rows)
            /\ \A i \in (n + 1)..Len(rows) :
                  rows[i].TumourSize =
                      call.paramDic["scaleFactor"] * (rows[i].S + rows[i].R)
            /\ \A i \in 1..n : rows[i] = call.kept.rows[i]

\* A continuation after scaleFactor was changed: a row carried over has the
\* observable of the old scaleFactor, a row added that of the new.
WitC10 ==
    /\ Returned /\ self.areaModel = "linear" /\ ~call.restartB
    /\ \E i \in 1..Len(call.kept.rows) :
          self.resultsDf.rows[i].TumourSize #
              call.paramDic["scaleFactor"] *
                  (self.resultsDf.rows[i].S + self.resultsDf.rows[i].R)
    /\ \E i \in (Len(call.kept.rows) + 1)..Len(self.resultsDf.rows) :
          /\ self.resultsDf.rows[i].S + self.resultsDf.rows[i].R > 0
          /\ self.resultsDf.rows[i].TumourSize =
                call.paramDic["scaleFactor"] *
                    (self.resultsDf.rows[i].S + self.resultsDf.rows[i].R)
\* The grid of interval k of the schedule last simulated is as C11 has it:
\* it starts at the interval's start, has one point per step of dt up to
\* the end (the end itself only for the last interval), increases
\* strictly and does not go beyond the end.
GridAsStated(k) ==
    LET tVec == grids.tVecs[k]
        steps == grids.bounds[k][2] - grids.bounds[k][1]
        end == TimeOf(grids.bounds[k][2], grids.dt)
        lastB == k = Len(grids.bounds)
    IN  /\ Len(tVec) = IF lastB THEN steps + 1 ELSE steps
        /\ tVec[1] = TimeOf(grids.bounds[k][1], grids.dt)
        /\ \A i \in 1..(Len(tVec) - 1) : FLess(tVec[i], tVec[i + 1])
        /\ ~FLess(end, tVec[Len(tVec)])
        /\ ~lastB => FLess(tVec[Len(tVec)], end)

\* C11: in a Simulate call that succeeds, over a contiguous schedule whose
\* interval bounds are multiples of dt, every interval but the last
\* contributes the time points start, start+dt, ..., end-dt and the last
\* one start, start+dt, ..., end, so that the rows list every grid point
\* from the first start to the last end once, in strictly increasing order.
CexC11 ==
    grids.bounds # <<>> => \A k \in 1..Len(grids.bounds) : GridAsStated(k)

\* Where dt is 1 or 0.5, which binary floating point holds exactly, the
\* grids are as C11 has them.
GridsOfExactDt ==
    (grids.bounds # <<>> /\ grids.dt \in { <<1, 1>>, <<1, 2>> }) =>
        \A k \in 1..Len(grids.bounds) : GridAsStated(k)

\* dt = 0.1 and the schedule [(0, 0.2, dose)]: the grid has the four points
\* 0, 0.1, 0.2 and one beyond the end.
GridBeyondEnd ==
    /\ grids.dt = <<1, 10>> /\ grids.bounds = << <<0, 2>> >>
    /\ Len(grids.tVecs[1]) = 4
    /\ FLess(TimeOf(2, grids.dt), grids.tVecs[1][4])

====
